---------------------------- MODULE Spec2Model ----------------------------
(***************************************************************************)
(* A model of the skeletal-motion kernel of pymovis:                       *)
(*   - Skeleton.add_joint            (src/pymovis/motion/core.py)          *)
(*   - R.fk, R.from_A, R.from_R6     (src/pymovis/motion/ops/npmotion.py)  *)
(*   - Pose.two_bone_ik, Motion.*    (src/pymovis/motion/core.py)          *)
(*                                                                         *)
(* Numbers are exact integers (or integer fractions): vectors are          *)
(* 3-tuples, matrices are 3-tuples of rows.  Python's list and array       *)
(* indexing (negative indices count from the end, anything else raises     *)
(* IndexError) is modelled by PyIndexOK / PyPos.                           *)
(***************************************************************************)
EXTENDS Integers, Sequences, FiniteSets, TLC

VARIABLES
    default_joints,  \* the list object that is Skeleton.__init__'s default `joints`
    skel,            \* per Skeleton object: created, parent_idx, children_idx, idx_by_name
    raised,          \* per Skeleton object: how many add_joint calls on it have raised
    call,            \* the last call made: its name, arguments and outcome
    pose,            \* a Pose with its skeleton (R.fk / two_bone_ik)
    fk_out,          \* what R.fk returned for `pose`
    motions,         \* the Motion objects: the source motion and its window
    nops,            \* number of Motion operations performed so far
    r6,              \* the argument of R.from_R6
    r6_out,          \* what R.from_R6 returned
    q_in,            \* the quaternions x and y handed to Q.mul and Q.inv
    q_out            \* what Q.mul / Q.inv returned

vars == <<default_joints, skel, raised, call, pose, fk_out, motions, nops, r6, r6_out,
          q_in, q_out>>

skelVars   == <<default_joints, skel, raised>>
poseVars   == <<pose, fk_out>>
motionVars == <<motions, nops>>
r6Vars     == <<r6, r6_out>>
quatVars   == <<q_in, q_out>>

-----------------------------------------------------------------------------
(* Bounds of the model.                                                    *)

\* most joints a skeleton is given by add_joint
MaxJoints == 3

\* most add_joint calls on one skeleton that raise
MaxRaises == 1

\* most joints of a skeleton handed to R.fk and Pose.two_bone_ik
MaxChain == 4

\* largest absolute value of a component of R.from_R6's argument
MaxComponent == 4

\* most frames Motion.from_numpy is given
MaxFrames == 2

\* most operations performed on the motions after Motion.from_numpy
MaxOps == 2

\* largest absolute value of a component of a quaternion handed to Q.mul
MaxQ == 1

-----------------------------------------------------------------------------
(* Python sequences.                                                       *)

\* lst[k] is defined for -len <= k < len
PyIndexOK(k, n) == -n <= k /\ k < n

\* the 1-based position that Python index k denotes in a list of length n
PyPos(k, n) == IF k < 0 THEN k + n + 1 ELSE k + 1

PyGet(lst, k) == lst[PyPos(k, Len(lst))]

NoCall == [op |-> "none"]

-----------------------------------------------------------------------------
(* Skeleton                                                                *)

SkelIds    == {"s1", "s2"}
JointNames == {"a", "b"}

\* parent_idx argument of add_joint: <<>> is None, <<k>> is the integer k
ParentArgs == {<<>>} \cup {<<k>> : k \in -1 .. MaxJoints}

NoSkeleton == [created |-> FALSE, parent_idx |-> <<>>, children_idx |-> <<>>,
               idx_by_name |-> <<>>]

\* Skeleton(): joints is the default argument, one list shared by every call
NewSkeleton(s) ==
    /\ ~skel[s].created
    /\ skel' = [skel EXCEPT ![s] = [created |-> TRUE, parent_idx |-> <<>>,
                                    children_idx |-> <<>>, idx_by_name |-> <<>>]]
    /\ call' = [op |-> "Skeleton", s |-> s, outcome |-> "ok"]
    /\ UNCHANGED <<default_joints, raised>>

\* self.joints of skeleton s
joints(s) == default_joints

num_joints(s) == Len(joints(s))

\* self.idx_by_name[joint_name] = idx
DictSet(d, key, val) ==
    [k \in (DOMAIN d) \cup {key} |-> IF k = key THEN val ELSE d[k]]

\* self.children_idx[parent_idx].append(joint_idx), for an index Python accepts
ChildrenAppend(children_idx, parent_idx, joint_idx) ==
    [children_idx EXCEPT ![PyPos(parent_idx, Len(children_idx))] =
        Append(@, joint_idx)]

\* does self.children_idx[parent_idx] raise IndexError?
ChildrenIndexRaises(children_idx, parent_idx) ==
    ~PyIndexOK(parent_idx, Len(children_idx))

AddJoint(s, joint_name, parent_arg) ==
    /\ skel[s].created
    /\ Len(default_joints) < MaxJoints
    /\ LET sk        == skel[s]
           joint_idx == Len(joints(s))
           c         == [op |-> "add_joint", s |-> s, name |-> joint_name,
                         parent |-> parent_arg, joint_idx |-> joint_idx]
       IN IF parent_arg = <<>>
          THEN IF Len(joints(s)) # 0
               THEN \* assert len(self.joints) == 0 fails
                    /\ raised[s] < MaxRaises
                    /\ call' = c @@ [outcome |-> "AssertionError"]
                    /\ raised' = [raised EXCEPT ![s] = @ + 1]
                    /\ UNCHANGED <<default_joints, skel>>
               ELSE /\ skel' = [skel EXCEPT ![s] =
                          [sk EXCEPT !.parent_idx = Append(@, -1),
                                     !.children_idx = Append(Append(@, <<>>), <<>>),
                                     !.idx_by_name = DictSet(@, joint_name, joint_idx)]]
                    /\ default_joints' = Append(default_joints, joint_name)
                    /\ call' = c @@ [outcome |-> "ok"]
                    /\ UNCHANGED raised
          ELSE LET parent_idx == parent_arg[1] IN
               IF ChildrenIndexRaises(sk.children_idx, parent_idx)
               THEN \* parent_idx was appended before the IndexError
                    /\ raised[s] < MaxRaises
                    /\ skel' = [skel EXCEPT ![s].parent_idx = Append(@, parent_idx)]
                    /\ call' = c @@ [outcome |-> "IndexError"]
                    /\ raised' = [raised EXCEPT ![s] = @ + 1]
                    /\ UNCHANGED default_joints
               ELSE /\ skel' = [skel EXCEPT ![s] =
                          [sk EXCEPT !.parent_idx = Append(@, parent_idx),
                                     !.children_idx =
                                         Append(ChildrenAppend(@, parent_idx, joint_idx), <<>>),
                                     !.idx_by_name = DictSet(@, joint_name, joint_idx)]]
                    /\ default_joints' = Append(default_joints, joint_name)
                    /\ call' = c @@ [outcome |-> "ok"]
                    /\ UNCHANGED raised

SkelNext ==
    /\ \/ \E s \in SkelIds : NewSkeleton(s)
       \/ \E s \in SkelIds, n \in JointNames, p \in ParentArgs : AddJoint(s, n, p)
    /\ UNCHANGED <<poseVars, motionVars, r6Vars, quatVars>>


-----------------------------------------------------------------------------
(* Vectors and matrices (numpy arrays of shape (3,) and (3, 3)).           *)

VAdd(a, b) == <<a[1] + b[1], a[2] + b[2], a[3] + b[3]>>
VSub(a, b) == <<a[1] - b[1], a[2] - b[2], a[3] - b[3]>>
\* a * b of numpy: elementwise
VMul(a, b) == <<a[1] * b[1], a[2] * b[2], a[3] * b[3]>>
VScale(k, a) == <<k * a[1], k * a[2], k * a[3]>>
Dot(a, b) == a[1] * b[1] + a[2] * b[2] + a[3] * b[3]
Cross(a, b) == <<a[2] * b[3] - a[3] * b[2],
                 a[3] * b[1] - a[1] * b[3],
                 a[1] * b[2] - a[2] * b[1]>>

Col(M, j) == <<M[1][j], M[2][j], M[3][j]>>
MatVec(M, v) == <<Dot(M[1], v), Dot(M[2], v), Dot(M[3], v)>>
MatRow(A, B, i) == <<Dot(A[i], Col(B, 1)), Dot(A[i], Col(B, 2)), Dot(A[i], Col(B, 3))>>
MatMul(A, B) == <<MatRow(A, B, 1), MatRow(A, B, 2), MatRow(A, B, 3)>>
MatAdd(A, B) == <<VAdd(A[1], B[1]), VAdd(A[2], B[2]), VAdd(A[3], B[3])>>
MatScale(k, A) == <<VScale(k, A[1]), VScale(k, A[2]), VScale(k, A[3])>>
Det(M) == Dot(M[1], Cross(M[2], M[3]))

Eye3 == <<<<1, 0, 0>>, <<0, 1, 0>>, <<0, 0, 1>>>>
ZeroV == <<0, 0, 0>>

\* pymovis.utils.npconst
P_ZERO  == <<0, 0, 0>>
X_AXIS  == <<1, 0, 0>>
Y_AXIS  == <<0, 1, 0>>
XZ      == <<1, 0, 1>>
FORWARD == <<0, 0, 1>>

\* the integer square root of a perfect square, 0 for other numbers
Sqrt(n) == IF \E k \in 0 .. n : k * k = n THEN CHOOSE k \in 0 .. n : k * k = n ELSE 0

HasNorm(v) == \E k \in 0 .. Dot(v, v) : k * k = Dot(v, v)

\* normalize(x) = x / (|x| + eps) as a fraction n / d.  eps = 1e-8 is taken
\* as 0 for x # 0; for x = 0 the quotient 0 / eps is the zero vector.
normalizeQ(x) == IF x = ZeroV THEN [n |-> ZeroV, d |-> 1]
                 ELSE [n |-> x, d |-> Sqrt(Dot(x, x))]

\* normalize(x) for the vectors whose quotient is integral (axis-aligned ones)
normalize(x) == LET q == normalizeQ(x)
                IN <<q.n[1] \div q.d, q.n[2] \div q.d, q.n[3] \div q.d>>

\* sin and cos of an angle given in quarter turns
Sin(q) == CASE q % 4 = 0 -> 0 [] q % 4 = 1 -> 1 [] q % 4 = 2 -> 0 [] OTHER -> -1
Cos(q) == CASE q % 4 = 0 -> 1 [] q % 4 = 1 -> 0 [] q % 4 = 2 -> -1 [] OTHER -> 0

\* arccos, in quarter turns, of the cosines -1, 0, 1
ArcCos(c) == CASE c = 1 -> 0 [] c = 0 -> 1 [] OTHER -> 2

Skew(axis) == <<<<0, 0 - axis[3], axis[2]>>,
                <<axis[3], 0, 0 - axis[1]>>,
                <<0 - axis[2], axis[1], 0>>>>

\* R.from_A(angle, axis): Rodrigues' formula, the axis taken as given
from_A(angle, axis) ==
    LET K == Skew(axis)
    IN MatAdd(MatAdd(Eye3, MatScale(Sin(angle), K)),
              MatScale(1 - Cos(angle), MatMul(K, K)))

SeqOf(S, n) == [1 .. n -> S]

-----------------------------------------------------------------------------
(* R.fk                                                                    *)

\* One pass of the loop `for i in range(1, len(parents))`: i is the Python
\* index of the joint, gR and gp the lists built so far.
RECURSIVE FkLoop(_, _, _, _, _, _)
FkLoop(i, gR, gp, R, parents, bone_offsets) ==
    IF i >= Len(parents) THEN [outcome |-> "ok", global_R |-> gR, global_p |-> gp]
    ELSE IF ~PyIndexOK(parents[i + 1], Len(gR)) THEN [outcome |-> "IndexError"]
    ELSE FkLoop(i + 1,
                Append(gR, MatMul(PyGet(gR, parents[i + 1]), R[i + 1])),
                Append(gp, VAdd(MatVec(PyGet(gR, parents[i + 1]), bone_offsets[i + 1]),
                                PyGet(gp, parents[i + 1]))),
                R, parents, bone_offsets)

FkPrev(R, root_p, skeleton) ==
    FkLoop(1, <<R[1]>>, <<root_p>>, R,
           [i \in 1 .. Len(skeleton.parent_idx) |-> i - 2], skeleton.offsets)

\* R.fk(R, root_p, skeleton)
fk(R, root_p, skeleton) ==
    FkLoop(1, <<R[1]>>, <<root_p>>, R, skeleton.parent_idx, skeleton.offsets)

\* parent tables of the trees of n joints in topological order
TreeParents(n) ==
    {p \in [1 .. n -> -1 .. n - 2] :
        /\ p[1] = -1
        /\ \A i \in 2 .. n : 0 <= p[i] /\ p[i] < i - 1}

RotY90 == from_A(1, Y_AXIS)
RotX90 == from_A(1, X_AXIS)
RotSet == {Eye3, RotY90}

OffsetTables(n) ==
    {[i \in 1 .. n |-> IF i = 1 THEN P_ZERO ELSE o] : o \in {<<0, 0, -1>>, <<1, 2, 0>>}}

RootPositions == {<<0, 0, 0>>, <<1, 2, 3>>}

PoseInputs ==
    UNION {[skeleton : [parent_idx : TreeParents(n), offsets : OffsetTables(n)],
            local_R  : SeqOf(RotSet, n),
            root_p   : RootPositions] : n \in 1 .. MaxChain}

NoPose == [skeleton |-> [parent_idx |-> <<>>, offsets |-> <<>>],
           local_R |-> <<>>, root_p |-> P_ZERO]
NoFk   == [outcome |-> "none"]

ComputeFK ==
    /\ fk_out = NoFk
    /\ fk_out' = fk(pose.local_R, pose.root_p, pose.skeleton)
    /\ call' = [op |-> "fk"]
    /\ UNCHANGED pose

FkNext == ComputeFK /\ UNCHANGED <<skelVars, motionVars, r6Vars, quatVars>>


-----------------------------------------------------------------------------
(* R.from_R6.  A vector of fractions is [n |-> numerators, d |-> denominator]. *)

CrossQ(u, v) == [n |-> Cross(u.n, v.n), d |-> u.d * v.d]

\* z = np.cross(x, y)
R6z(x, y) == CrossQ(x, y)

\* R.from_R6(r6): rows x, y, z
from_R6(v) ==
    IF Len(v) # 6 THEN [outcome |-> "ValueError"]
    ELSE LET x  == normalizeQ(SubSeq(v, 1, 3))
             y  == normalizeQ(SubSeq(v, 4, 6))
             z  == R6z(x, y)
             y2 == CrossQ(z, x)
         IN [outcome |-> "ok", rows |-> <<x, y2, z>>]

Components == (0 - MaxComponent) .. MaxComponent

\* the 3-vectors of integral length
R6Halves == {v \in Components \X Components \X Components : HasNorm(v)}

FromR6 ==
    /\ r6_out.outcome = "none"
    /\ r6_out' = from_R6(r6)
    /\ call' = [op |-> "from_R6"]
    /\ UNCHANGED r6

R6Next == FromR6 /\ UNCHANGED <<skelVars, poseVars, motionVars, quatVars>>

-----------------------------------------------------------------------------
(* Pose                                                                    *)

\* Pose.base
PoseBase(ps) == VMul(ps.root_p, XZ)

\* Pose.forward
PoseForward(ps, skeleton) ==
    normalize(VMul(MatVec(ps.local_R[1], skeleton.v_forward), XZ))

\* The guard of Pose.two_bone_ik: what evaluating
\* parent_idx[parent_idx[effector_idx]] != base_idx leads to.
IkOutcome(skeleton, base_idx, effector_idx) ==
    LET parents == skeleton.parent_idx
        n       == Len(parents)
    IN IF ~PyIndexOK(effector_idx, n) THEN "IndexError"
       ELSE IF ~PyIndexOK(PyGet(parents, effector_idx), n) THEN "IndexError"
       ELSE IF PyGet(parents, PyGet(parents, effector_idx)) # base_idx THEN "ValueError"
       ELSE IF ~PyIndexOK(base_idx, n) THEN "IndexError"
       ELSE "ok"

\* The two assignments that end Pose.two_bone_ik.  r0, r1 and r2 are the
\* rotations R.from_A returns for the solved angles.
IkAssign(local_R, skeleton, base_idx, effector_idx, r0, r1, r2) ==
    LET n     == Len(local_R)
        b     == PyPos(base_idx, n)
        m     == PyPos(PyGet(skeleton.parent_idx, effector_idx), n)
        step1 == [local_R EXCEPT ![b] = MatMul(MatMul(local_R[b], r0), r2)]
    IN [step1 EXCEPT ![m] = MatMul(step1[m], r1)]

\* rotations standing for <<r0, r1, r2>>
IkRots == {<<RotX90, Eye3, Eye3>>, <<Eye3, RotX90, RotY90>>}

TwoBoneIK(base_idx, effector_idx, r0, r1, r2) ==
    /\ call = NoCall
    /\ LET out == IkOutcome(pose.skeleton, base_idx, effector_idx)
       IN /\ call' = [op |-> "two_bone_ik", base_idx |-> base_idx,
                      effector_idx |-> effector_idx, outcome |-> out]
          /\ pose' = IF out = "ok"
                     THEN [pose EXCEPT !.local_R =
                              IkAssign(@, pose.skeleton, base_idx, effector_idx, r0, r1, r2)]
                     ELSE pose
    /\ UNCHANGED fk_out

IkNext ==
    /\ \E b \in 0 .. Len(pose.local_R) - 1, e \in 0 .. Len(pose.local_R) - 1,
          r \in IkRots : TwoBoneIK(b, e, r[1], r[2], r[3])
    /\ UNCHANGED <<skelVars, motionVars, r6Vars, quatVars>>


-----------------------------------------------------------------------------
(* Motion                                                                  *)

MotionIds == {"src", "win"}

\* the skeleton the motions are built on: root -> hip -> knee
MotionSkeleton == [parent_idx |-> <<-1, 0, 1>>,
                   offsets    |-> <<P_ZERO, <<0, 0, -1>>, <<1, 0, 0>>>>,
                   v_forward  |-> FORWARD]

NoMotion == [exists |-> FALSE, poses |-> <<>>, local_R |-> <<>>, root_p |-> <<>>,
             global_v |-> <<>>, linked |-> FALSE]

\* global positions of every frame: R.fk on the stacked arrays
GlobalP(local_R, root_p) ==
    [t \in 1 .. Len(local_R) |-> fk(local_R[t], root_p[t], MotionSkeleton).global_p]

\* global_p[1:] - global_p[:-1]
FrameDiff(gp) ==
    [t \in 1 .. Len(gp) - 1 |-> [j \in 1 .. Len(gp[t]) |-> VSub(gp[t + 1][j], gp[t][j])]]

PadNone(v) == v

\* np.pad(v, ((1, 0), (0, 0), (0, 0)), "edge"), for a non-empty v
PadEdge(v) == <<v[1]>> \o v

\* the velocities Motion.__init__ derives when it is given none
VelocityOf(local_R, root_p) == PadEdge(FrameDiff(GlobalP(local_R, root_p)))

\* Does Motion.__init__ raise?  np.stack raises ValueError on an empty list,
\* and np.pad(..., "edge") raises ValueError on an empty axis.
InitRaises(poses, derive_v) == Len(poses) = 0 \/ (derive_v /\ Len(poses) = 1)

\* Motion.__init__: the bulk arrays are stacked copies of the poses' arrays
MotionNew(poses, derive_v, global_v) ==
    LET local_R == [t \in 1 .. Len(poses) |-> poses[t].local_R]
        root_p  == [t \in 1 .. Len(poses) |-> poses[t].root_p]
    IN [exists   |-> TRUE,
        poses    |-> poses,
        local_R  |-> local_R,
        root_p   |-> root_p,
        global_v |-> IF derive_v THEN VelocityOf(local_R, root_p) ELSE global_v,
        linked   |-> FALSE]

\* Motion.num_frames
num_frames(mo) == Len(mo.poses)

\* Motion.update: every pose's arrays become views of the bulk arrays
update(mo) ==
    [mo EXCEPT !.poses  = [t \in 1 .. num_frames(mo) |->
                              [local_R |-> mo.local_R[t], root_p |-> mo.root_p[t]]],
               !.linked = TRUE]

\* poses[start:end] and global_v[start:end] for 0 <= start, end <= len
Slice(lst, start, end) == SubSeq(lst, start + 1, end)

\* Motion.make_window
make_window(mo, start, end) ==
    MotionNew(Slice(mo.poses, start, end), FALSE, Slice(mo.global_v, start, end))

OriginShiftAll(mo, frame) == PyGet(mo.root_p, frame)

\* self.root_p[frame] * npconst.XZ()
OriginShift(mo, frame) == VMul(PyGet(mo.root_p, frame), XZ)

\* Motion.align_to_origin_by_frame
align_to_origin_by_frame(mo, frame) ==
    LET d == OriginShift(mo, frame)
    IN update([mo EXCEPT !.root_p = [t \in 1 .. Len(mo.root_p) |-> VSub(mo.root_p[t], d)]])

RotateVelocityNot(R_delta, global_v) == global_v

\* np.einsum("ij,klj->kli", R_delta, self.global_v)
RotateVelocity(R_delta, global_v) ==
    [t \in 1 .. Len(global_v) |->
        [j \in 1 .. Len(global_v[t]) |-> MatVec(R_delta, global_v[t][j])]]

\* R_delta of align_to_forward_by_frame
DeltaRotation(forward_from, forward_to) ==
    from_A(ArcCos(Dot(forward_from, forward_to)),
           normalize(Cross(forward_from, forward_to)))

\* a test that never finds the directions parallel
NeverParallel(forward_from, forward_to) == FALSE

\* np.dot(forward_from, forward_to) > 0.999999, which is dot >= 1 for the
\* dot products -1, 0, 1 of the model's directions
NearlyParallel(forward_from, forward_to) == Dot(forward_from, forward_to) >= 1

\* Motion.align_to_forward_by_frame
align_to_forward_by_frame(mo, frame, forward) ==
    LET forward_from == PoseForward(PyGet(mo.poses, frame), MotionSkeleton)
        forward_to   == normalize(VMul(forward, XZ))
        R_delta      == DeltaRotation(forward_from, forward_to)
        base         == PoseBase(PyGet(mo.poses, frame))
    IN IF NearlyParallel(forward_from, forward_to) THEN mo
       ELSE update([mo EXCEPT
               !.local_R  = [t \in 1 .. Len(mo.local_R) |->
                                [mo.local_R[t] EXCEPT ![1] = MatMul(R_delta, mo.local_R[t][1])]],
               !.root_p   = [t \in 1 .. Len(mo.root_p) |->
                                VAdd(MatVec(R_delta, VSub(mo.root_p[t], base)), base)],
               !.global_v = RotateVelocity(R_delta, mo.global_v)])

\* Motion.align_by_frame
align_by_frame(mo, frame, forward) ==
    align_to_forward_by_frame(align_to_origin_by_frame(mo, frame), frame, forward)

\* Motion.translate_root
translate_root(mo, delta) ==
    update([mo EXCEPT !.root_p = [t \in 1 .. Len(mo.root_p) |-> VAdd(mo.root_p[t], delta)]])

\* Pose.two_bone_ik on get_pose_by_frame(frame): the pose's local_R is written
\* in place, which writes the bulk array too once update() made it a view.
pose_two_bone_ik(mo, frame, base_idx, effector_idx, r0, r1, r2) ==
    LET t    == PyPos(frame, Len(mo.poses))
        newR == IkAssign(mo.poses[t].local_R, MotionSkeleton, base_idx, effector_idx,
                         r0, r1, r2)
    IN IF IkOutcome(MotionSkeleton, base_idx, effector_idx) # "ok" THEN mo
       ELSE [mo EXCEPT !.poses[t].local_R = newR,
                       !.local_R[t] = IF mo.linked THEN newR ELSE @]

\* the frames handed to Motion.from_numpy
FrameInputs == [local_R : {<<r, RotX90, Eye3>> : r \in {Eye3, RotY90}},
                root_p  : {<<0, 0, 0>>, <<1, 2, 3>>}]

ForwardTargets == {<<0, 0, 1>>, <<2, 5, 0>>, <<0, 1, -1>>, <<-1, 0, 0>>}
\* the targets used beside a window: a quarter turn and the opposite direction
WindowTargets == {<<2, 5, 0>>, <<0, 1, -1>>}
Deltas == {<<1, 0, 0>>, <<0, -1, 2>>}

\* Motion.from_numpy
FromNumpy(frames) ==
    /\ ~motions["src"].exists
    /\ IF InitRaises(frames, TRUE)
       THEN /\ call' = [op |-> "from_numpy", m |-> "src", outcome |-> "ValueError"]
            /\ UNCHANGED motions
       ELSE /\ call' = [op |-> "from_numpy", m |-> "src", outcome |-> "ok"]
            /\ motions' = [motions EXCEPT !["src"] = MotionNew(frames, TRUE, <<>>)]
    /\ UNCHANGED nops

MakeWindow(start, end) ==
    /\ motions["src"].exists /\ ~motions["win"].exists
    /\ nops < MaxOps
    /\ nops' = nops + 1
    /\ IF InitRaises(Slice(motions["src"].poses, start, end), FALSE)
       THEN /\ call' = [op |-> "make_window", m |-> "src", start |-> start, end |-> end,
                        outcome |-> "ValueError"]
            /\ UNCHANGED motions
       ELSE /\ call' = [op |-> "make_window", m |-> "src", start |-> start, end |-> end,
                        outcome |-> "ok"]
            /\ motions' = [motions EXCEPT !["win"] = make_window(motions["src"], start, end)]

AlignToOrigin(m, frame) ==
    /\ motions[m].exists
    /\ nops < MaxOps
    /\ nops' = nops + 1
    /\ motions' = [motions EXCEPT ![m] = align_to_origin_by_frame(@, frame)]
    /\ call' = [op |-> "align_to_origin_by_frame", m |-> m, frame |-> frame,
                outcome |-> "ok"]

AlignToForward(m, frame, forward) ==
    /\ motions[m].exists
    /\ nops < MaxOps
    /\ nops' = nops + 1
    /\ motions' = [motions EXCEPT ![m] = align_to_forward_by_frame(@, frame, forward)]
    /\ call' = [op |-> "align_to_forward_by_frame", m |-> m, frame |-> frame,
                forward |-> forward, outcome |-> "ok"]

AlignByFrame(m, frame, forward) ==
    /\ motions[m].exists
    /\ nops < MaxOps
    /\ nops' = nops + 1
    /\ motions' = [motions EXCEPT ![m] = align_by_frame(@, frame, forward)]
    /\ call' = [op |-> "align_by_frame", m |-> m, frame |-> frame,
                forward |-> forward, outcome |-> "ok"]

TranslateRoot(m, delta) ==
    /\ motions[m].exists
    /\ nops < MaxOps
    /\ nops' = nops + 1
    /\ motions' = [motions EXCEPT ![m] = translate_root(@, delta)]
    /\ call' = [op |-> "translate_root", m |-> m, delta |-> delta, outcome |-> "ok"]

PoseTwoBoneIK(m, frame, base_idx, effector_idx, r0, r1, r2) ==
    /\ motions[m].exists
    /\ nops < MaxOps
    /\ nops' = nops + 1
    /\ motions' = [motions EXCEPT ![m] =
                      pose_two_bone_ik(@, frame, base_idx, effector_idx, r0, r1, r2)]
    /\ call' = [op |-> "two_bone_ik", m |-> m, frame |-> frame, base_idx |-> base_idx,
                effector_idx |-> effector_idx,
                outcome |-> IkOutcome(MotionSkeleton, base_idx, effector_idx)]

FrameIdx(m) == 0 .. Len(motions[m].poses) - 1

AlignNext ==
    /\ \/ \E T \in 1 .. MaxFrames : \E frames \in SeqOf(FrameInputs, T) : FromNumpy(frames)
       \/ \E f \in FrameIdx("src") : AlignToOrigin("src", f)
       \/ \E f \in FrameIdx("src"), fw \in ForwardTargets : AlignToForward("src", f, fw)
       \/ \E f \in FrameIdx("src"), fw \in ForwardTargets : AlignByFrame("src", f, fw)
       \/ \E d \in Deltas : TranslateRoot("src", d)
    /\ UNCHANGED <<skelVars, poseVars, r6Vars, quatVars>>

MotionNext ==
    /\ \/ \E T \in 1 .. MaxFrames : \E frames \in SeqOf(FrameInputs, T) : FromNumpy(frames)
       \/ \E s \in 0 .. Len(motions["src"].poses), e \in 0 .. Len(motions["src"].poses) :
             MakeWindow(s, e)
       \/ \E m \in MotionIds : \E f \in FrameIdx(m) : AlignToOrigin(m, f)
       \/ \E m \in MotionIds : \E f \in FrameIdx(m), fw \in ForwardTargets :
             AlignToForward(m, f, fw)
       \/ \E m \in MotionIds : \E f \in FrameIdx(m), fw \in ForwardTargets :
             AlignByFrame(m, f, fw)
       \/ \E m \in MotionIds : \E d \in Deltas : TranslateRoot(m, d)
       \/ \E m \in MotionIds : \E f \in FrameIdx(m), b \in 0 .. 2, e \in 0 .. 2,
             r \in IkRots : PoseTwoBoneIK(m, f, b, e, r[1], r[2], r[3])
    /\ UNCHANGED <<skelVars, poseVars, r6Vars, quatVars>>

\* a Motion and its window under the alignment operations
WindowNext ==
    /\ \/ \E T \in 1 .. MaxFrames : \E frames \in SeqOf(FrameInputs, T) : FromNumpy(frames)
       \/ \E s \in 0 .. Len(motions["src"].poses), e \in 0 .. Len(motions["src"].poses) :
             MakeWindow(s, e)
       \/ \E m \in MotionIds : \E f \in FrameIdx(m) : AlignToOrigin(m, f)
       \/ \E m \in MotionIds : \E f \in FrameIdx(m), fw \in WindowTargets :
             AlignToForward(m, f, fw)
       \/ \E m \in MotionIds : \E f \in FrameIdx(m), fw \in WindowTargets :
             AlignByFrame(m, f, fw)
       \/ \E m \in MotionIds : \E d \in Deltas : TranslateRoot(m, d)
    /\ UNCHANGED <<skelVars, poseVars, r6Vars, quatVars>>

\* the flag of a velocity that is in contact at the threshold, too
ContactFlagLeq(v, velfactor) == IF Dot(v, v) <= velfactor THEN 1 ELSE 0

\* np.sum(v ** 2, axis=-1) < velfactor, as the float32 the result is cast to
ContactFlag(v, velfactor) == IF Dot(v, v) < velfactor THEN 1 ELSE 0

\* the flags of the joints listed in foot_idx at one frame
ContactsOf(v_t, foot_idx, velfactor) ==
    [k \in 1 .. Len(foot_idx) |-> ContactFlag(PyGet(v_t, foot_idx[k]), velfactor)]

\* Motion.get_contacts: contacts_l and contacts_r concatenated on the last axis
get_contacts(mo, lfoot_idx, rfoot_idx, velfactor) ==
    [t \in 1 .. Len(mo.global_v) |->
        ContactsOf(mo.global_v[t], lfoot_idx, velfactor)
            \o ContactsOf(mo.global_v[t], rfoot_idx, velfactor)]

\* the joint lists and thresholds handed to get_contacts
FootLists   == {<<1>>, <<2, 0>>}
VelFactors  == {2, 14}

GetContacts(m, lfoot_idx, rfoot_idx, velfactor) ==
    /\ motions[m].exists
    /\ call' = [op |-> "get_contacts", m |-> m, lfoot_idx |-> lfoot_idx,
                rfoot_idx |-> rfoot_idx, velfactor |-> velfactor, outcome |-> "ok",
                res |-> get_contacts(motions[m], lfoot_idx, rfoot_idx, velfactor)]
    /\ UNCHANGED <<motions, nops>>

\* a Motion, aligned, and its window, and their foot contacts
ContactsNext ==
    /\ \/ \E T \in 1 .. MaxFrames : \E frames \in SeqOf(FrameInputs, T) : FromNumpy(frames)
       \/ \E s \in 0 .. Len(motions["src"].poses), e \in 0 .. Len(motions["src"].poses) :
             MakeWindow(s, e)
       \/ \E f \in FrameIdx("src"), fw \in WindowTargets : AlignByFrame("src", f, fw)
       \/ \E m \in MotionIds : \E l \in FootLists : \E r \in FootLists \ {l} :
             \E vf \in VelFactors : GetContacts(m, l, r, vf)
    /\ UNCHANGED <<skelVars, poseVars, r6Vars, quatVars>>

-----------------------------------------------------------------------------
(* Quaternions (numpy arrays of shape (4,), real part first)               *)

\* the product taken in the other order
MulSwapped(x, y) ==
    <<x[1] * y[1] - x[2] * y[2] - x[3] * y[3] - x[4] * y[4],
      x[1] * y[2] + x[2] * y[1] - x[3] * y[4] + x[4] * y[3],
      x[1] * y[3] + x[2] * y[4] + x[3] * y[1] - x[4] * y[2],
      x[1] * y[4] - x[2] * y[3] + x[3] * y[2] + x[4] * y[1]>>

\* Q.mul
mul(x, y) ==
    <<y[1] * x[1] - y[2] * x[2] - y[3] * x[3] - y[4] * x[4],
      y[1] * x[2] + y[2] * x[1] - y[3] * x[4] + y[4] * x[3],
      y[1] * x[3] + y[2] * x[4] + y[3] * x[1] - y[4] * x[2],
      y[1] * x[4] - y[2] * x[3] + y[3] * x[2] + y[4] * x[1]>>

\* Q.inv: [1, -1, -1, -1] * Q
inv(q) == <<1 * q[1], (-1) * q[2], (-1) * q[3], (-1) * q[4]>>

Quaternions == (-MaxQ .. MaxQ) \X (-MaxQ .. MaxQ) \X (-MaxQ .. MaxQ) \X (-MaxQ .. MaxQ)

QMul ==
    /\ q_out.op = "none"
    /\ q_out' = [op |-> "mul", res |-> mul(q_in[1], q_in[2])]
    /\ call' = [op |-> "Q.mul"]
    /\ UNCHANGED q_in

QInv ==
    /\ q_out.op = "none"
    /\ q_out' = [op |-> "inv", res |-> inv(q_in[1])]
    /\ call' = [op |-> "Q.inv"]
    /\ UNCHANGED q_in

\* Q.mul(x, Q.inv(x)) and Q.mul(Q.inv(x), x)
QMulInv ==
    /\ q_out.op = "none"
    /\ q_out' = [op |-> "mul_inv", res |-> mul(q_in[1], inv(q_in[1])),
                 res_left |-> mul(inv(q_in[1]), q_in[1])]
    /\ call' = [op |-> "Q.mul"]
    /\ UNCHANGED q_in

QuatNext ==
    /\ QMul \/ QInv \/ QMulInv
    /\ UNCHANGED <<skelVars, poseVars, motionVars, r6Vars>>

-----------------------------------------------------------------------------
(* Specifications                                                          *)

\* no Skeleton constructed yet
SkelInit ==
    /\ default_joints = <<>>
    /\ skel = [s \in SkelIds |-> NoSkeleton]
    /\ raised = [s \in SkelIds |-> 0]
    /\ call = NoCall
    /\ pose = NoPose
    /\ fk_out = NoFk
    /\ motions = [m \in MotionIds |-> NoMotion]
    /\ nops = 0
    /\ r6 = <<>>
    /\ r6_out = [outcome |-> "none"]
    /\ q_in = <<>>
    /\ q_out = [op |-> "none"]

\* a pose ready for R.fk
FkInit ==
    /\ pose \in PoseInputs
    /\ fk_out = NoFk
    /\ call = NoCall
    /\ default_joints = <<>>
    /\ skel = [s \in SkelIds |-> NoSkeleton]
    /\ raised = [s \in SkelIds |-> 0]
    /\ motions = [m \in MotionIds |-> NoMotion]
    /\ nops = 0
    /\ r6 = <<>>
    /\ r6_out = [outcome |-> "none"]
    /\ q_in = <<>>
    /\ q_out = [op |-> "none"]

\* a pose ready for Pose.two_bone_ik
IkInit ==
    /\ pose \in PoseInputs
    /\ fk_out = NoFk
    /\ call = NoCall
    /\ default_joints = <<>>
    /\ skel = [s \in SkelIds |-> NoSkeleton]
    /\ raised = [s \in SkelIds |-> 0]
    /\ motions = [m \in MotionIds |-> NoMotion]
    /\ nops = 0
    /\ r6 = <<>>
    /\ r6_out = [outcome |-> "none"]
    /\ q_in = <<>>
    /\ q_out = [op |-> "none"]

\* a 6-vector ready for R.from_R6
R6Init ==
    /\ r6 \in {a \o b : <<a, b>> \in R6Halves \X R6Halves}
    /\ r6_out = [outcome |-> "none"]
    /\ q_in = <<>>
    /\ q_out = [op |-> "none"]
    /\ call = NoCall
    /\ default_joints = <<>>
    /\ skel = [s \in SkelIds |-> NoSkeleton]
    /\ raised = [s \in SkelIds |-> 0]
    /\ pose = NoPose
    /\ fk_out = NoFk
    /\ motions = [m \in MotionIds |-> NoMotion]
    /\ nops = 0

\* no Motion constructed yet
MotionInit ==
    /\ motions = [m \in MotionIds |-> NoMotion]
    /\ nops = 0
    /\ call = NoCall
    /\ default_joints = <<>>
    /\ skel = [s \in SkelIds |-> NoSkeleton]
    /\ raised = [s \in SkelIds |-> 0]
    /\ pose = NoPose
    /\ fk_out = NoFk
    /\ r6 = <<>>
    /\ r6_out = [outcome |-> "none"]
    /\ q_in = <<>>
    /\ q_out = [op |-> "none"]

\* Skeleton construction
SpecSkel == SkelInit
            /\ [][SkelNext]_vars

\* R.fk applied to a pose
SpecFK == FkInit
          /\ [][FkNext]_vars

\* Pose.two_bone_ik applied to a pose
SpecIK == IkInit
          /\ [][IkNext]_vars

\* R.from_R6 applied to a 6-vector
SpecR6 == R6Init /\ [][R6Next]_vars

\* a Motion under the alignment operations
SpecAlign == MotionInit
             /\ [][AlignNext]_vars

\* a Motion and its window under the alignment operations
SpecWindow == MotionInit
              /\ [][WindowNext]_vars

\* a Motion and its window under every operation
SpecMotion == MotionInit
              /\ [][MotionNext]_vars

\* a Motion and its window queried for foot contacts
SpecContacts == MotionInit
                /\ [][ContactsNext]_vars

\* two quaternions ready for Q.mul and Q.inv
QuatInit ==
    /\ q_in \in Quaternions \X Quaternions
    /\ q_out = [op |-> "none"]
    /\ call = NoCall
    /\ default_joints = <<>>
    /\ skel = [s \in SkelIds |-> NoSkeleton]
    /\ raised = [s \in SkelIds |-> 0]
    /\ pose = NoPose
    /\ fk_out = NoFk
    /\ motions = [m \in MotionIds |-> NoMotion]
    /\ nops = 0
    /\ r6 = <<>>
    /\ r6_out = [outcome |-> "none"]

\* Q.mul and Q.inv applied to quaternions
SpecQuat == QuatInit /\ [][QuatNext]_vars


-----------------------------------------------------------------------------
(* Claims                                                                  *)

\* C1: after any sequence of successful add_joint calls on a skeleton, joint
\* 0 is the only joint with parent_idx -1 and every other joint i has
\* 0 <= parent_idx[i] < i.
C1_OneRootTopological ==
    \A s \in SkelIds :
        (skel[s].created /\ raised[s] = 0) =>
            LET p == skel[s].parent_idx
            IN \A k \in 1 .. Len(p) :
                  IF k = 1 THEN p[k] = -1 ELSE 0 <= p[k] /\ p[k] < k - 1

\* C2: an add_joint call returns normally only when it is given no parent
\* and the skeleton has no joint yet, or a parent_idx that is the index of
\* an already-added joint; every other call raises.
C2_InvalidRejected ==
    (call.op = "add_joint" /\ call.outcome = "ok") =>
        \/ call.parent = <<>> /\ call.joint_idx = 0
        \/ call.parent # <<>> /\ 0 <= call.parent[1] /\ call.parent[1] < call.joint_idx

ScenarioPose ==
    [skeleton |-> [parent_idx |-> <<-1, 0, 1, 2>>,
                   offsets    |-> <<<<0, 0, 0>>, <<0, 0, -1>>, <<0, 0, -1>>, <<0, 0, -1>>>>],
     local_R  |-> <<Eye3, Eye3, Eye3, Eye3>>,
     root_p   |-> <<0, 0, 0>>]

\* C3: for a topologically ordered skeleton R.fk returns global_R[0] =
\* local_R[0], global_p[0] = root_p and, for every joint i > 0, global_R[i] =
\* global_R[parent[i]] . local_R[i] and global_p[i] = global_R[parent[i]] .
\* offset[i] + global_p[parent[i]]; the chain root -> hip -> knee -> foot with
\* identity rotations and offsets (0,0,-1) gets (0,0,0), (0,0,-1), (0,0,-2),
\* (0,0,-3).
C3_FkRecurrence ==
    fk_out.outcome # "none" =>
        LET parents == pose.skeleton.parent_idx
            offsets == pose.skeleton.offsets
            n       == Len(parents)
        IN /\ fk_out.outcome = "ok"
           /\ Len(fk_out.global_R) = n /\ Len(fk_out.global_p) = n
           /\ fk_out.global_R[1] = pose.local_R[1]
           /\ fk_out.global_p[1] = pose.root_p
           /\ \A i \in 2 .. n :
                 /\ fk_out.global_R[i] =
                       MatMul(fk_out.global_R[parents[i] + 1], pose.local_R[i])
                 /\ fk_out.global_p[i] =
                       VAdd(MatVec(fk_out.global_R[parents[i] + 1], offsets[i]),
                            fk_out.global_p[parents[i] + 1])
           /\ pose = ScenarioPose =>
                 fk_out.global_p = <<<<0, 0, 0>>, <<0, 0, -1>>, <<0, 0, -2>>, <<0, 0, -3>>>>

\* R.fk has run on a branching skeleton with a rotated root and a rotated joint
C3_Witness ==
    /\ fk_out.outcome = "ok"
    /\ pose.skeleton.parent_idx = <<-1, 0, 0, 2>>
    /\ pose.local_R = <<RotY90, Eye3, RotY90, Eye3>>
    /\ pose.root_p = <<1, 2, 3>>
    /\ fk_out.global_p[4] # fk_out.global_p[3]

\* base, parent(effector), effector are grandparent, parent and child
GenuineChain(parents, base_idx, effector_idx) ==
    /\ 0 <= effector_idx /\ effector_idx < Len(parents)
    /\ parents[effector_idx + 1] >= 0
    /\ parents[parents[effector_idx + 1] + 1] >= 0
    /\ parents[parents[effector_idx + 1] + 1] = base_idx

\* C4: Pose.two_bone_ik raises unless base, parent(effector), effector are a
\* grandparent/parent/child chain of the skeleton, in particular when the
\* effector is the root or a child of the root.
C4_IkRejectsNonChains ==
    (call.op = "two_bone_ik" /\ call.outcome = "ok") =>
        GenuineChain(pose.skeleton.parent_idx, call.base_idx, call.effector_idx)


\* C5: for a Motion built by from_numpy from at least two frames, after any
\* sequence of alignment operations and translate_root the cached global_v
\* is the per-frame difference of the global positions that forward
\* kinematics gives for the current local_R and root_p, and global_v[0] =
\* global_v[1].
C5_VelocityConsistent ==
    motions["src"].exists =>
        LET mo == motions["src"]
            p  == GlobalP(mo.local_R, mo.root_p)
        IN /\ \A t \in 2 .. Len(mo.local_R) : \A j \in 1 .. Len(p[t]) :
                 mo.global_v[t][j] = VSub(p[t][j], p[t - 1][j])
           /\ Len(mo.local_R) >= 2 => mo.global_v[1] = mo.global_v[2]

\* a quarter turn was applied: no input frame faces -x, and the joints move
C5_Witness ==
    /\ motions["src"].exists
    /\ call.op = "align_to_forward_by_frame"
    /\ PoseForward(motions["src"].poses[1], MotionSkeleton) = <<-1, 0, 0>>
    /\ motions["src"].global_v[2][1] # ZeroV
    /\ motions["src"].global_v[2][2] # motions["src"].global_v[2][1]

\* C6: after align_to_forward_by_frame(f, target), when frame f's forward
\* direction and the target both have a non-zero horizontal projection, the
\* horizontal forward direction of frame f's pose is the normalized
\* horizontal projection of target.
C6_ForwardAligned ==
    [][(nops' = nops + 1 /\ call'.op = "align_to_forward_by_frame") =>
          LET f      == call'.frame + 1
              before == PoseForward(motions[call'.m].poses[f], MotionSkeleton)
              to     == normalize(VMul(call'.forward, XZ))
          IN (before # ZeroV /\ to # ZeroV) =>
                PoseForward(motions'[call'.m].poses[f], MotionSkeleton) = to]_vars

\* C7: align_to_origin_by_frame(f) subtracts (x_f, 0, z_f) from every
\* frame's root position: frame f's root position, in root_p and in the pose
\* get_pose_by_frame(f) returns, becomes (0, y_f, 0) and no frame's vertical
\* component changes.
C7_OriginAligned ==
    [][(nops' = nops + 1 /\ call'.op = "align_to_origin_by_frame") =>
          LET f   == call'.frame + 1
              old == motions[call'.m]
              new == motions'[call'.m]
              d   == <<old.root_p[f][1], 0, old.root_p[f][3]>>
          IN /\ \A t \in 1 .. Len(old.root_p) : new.root_p[t] = VSub(old.root_p[t], d)
             /\ new.root_p[f] = <<0, old.root_p[f][2], 0>>
             /\ new.poses[f].root_p = <<0, old.root_p[f][2], 0>>
             /\ \A t \in 1 .. Len(old.root_p) : new.root_p[t][2] = old.root_p[t][2]]_vars

\* frame 1 was moved to the origin, keeping its height; frame 0 moved with it
C7_Witness ==
    /\ call.op = "align_to_origin_by_frame" /\ call.m = "src" /\ call.frame = 1
    /\ motions["src"].root_p[2] = <<0, 2, 0>>
    /\ motions["src"].poses[2].root_p = <<0, 2, 0>>
    /\ motions["src"].root_p[1] = <<-1, 0, -3>>

\* C8: make_window(start, end) returns a motion whose local_R, root_p, poses
\* and global_v are the source's frames [start, end), and no later operation
\* on the window changes the source, nor one on the source the window.
C8_WindowCopy ==
    /\ [](call.op = "make_window" /\ call.outcome = "ok" =>
            LET src == motions["src"]
                win == motions["win"]
            IN /\ win.local_R  = Slice(src.local_R, call.start, call.end)
               /\ win.root_p   = Slice(src.root_p, call.start, call.end)
               /\ win.global_v = Slice(src.global_v, call.start, call.end)
               /\ [t \in 1 .. Len(win.poses) |-> win.poses[t]] =
                     Slice(src.poses, call.start, call.end))
    /\ [][(motions["win"].exists /\ nops' = nops + 1) =>
             /\ call'.m = "win" => motions'["src"] = motions["src"]
             /\ call'.m = "src" => motions'["win"] = motions["win"]]_vars

\* are the 3-vectors u and v parallel (or one of them zero)?
Parallel(u, v) == Cross(u, v) = ZeroV

\* rows of unit length, mutually orthogonal, third = first x second, det +1
Orthonormal(rows) ==
    /\ \A i \in 1 .. 3 : Dot(rows[i].n, rows[i].n) = rows[i].d * rows[i].d
    /\ \A i \in 1 .. 3 : \A j \in 1 .. 3 : i # j => Dot(rows[i].n, rows[j].n) = 0
    /\ VScale(rows[1].d * rows[2].d, rows[3].n) =
          VScale(rows[3].d, Cross(rows[1].n, rows[2].n))
    /\ Det(<<rows[1].n, rows[2].n, rows[3].n>>) = rows[1].d * rows[2].d * rows[3].d

\* C9: R.from_R6 returns an orthonormal right-handed matrix for every
\* 6-vector whose halves are non-zero and not parallel, orthogonal or not.
C9_R6Orthonormal ==
    (r6_out.outcome # "none" /\ ~Parallel(SubSeq(r6, 1, 3), SubSeq(r6, 4, 6))) =>
        r6_out.outcome = "ok" /\ Orthonormal(r6_out.rows)

\* C10: every Motion has len(local_R) = len(root_p) = len(global_v) =
\* num_frames, whether built by from_numpy or by make_window, and after every
\* alignment and translate_root operation.
C10_LengthsAgree ==
    \A m \in MotionIds :
        motions[m].exists =>
            /\ Len(motions[m].local_R) = num_frames(motions[m])
            /\ Len(motions[m].root_p) = num_frames(motions[m])
            /\ Len(motions[m].global_v) = num_frames(motions[m])

\* a window of one frame, aligned, beside its source of two frames
C10_Witness ==
    /\ motions["src"].exists /\ motions["win"].exists
    /\ num_frames(motions["src"]) = 2 /\ Len(motions["src"].global_v) = 2
    /\ num_frames(motions["win"]) = 1 /\ Len(motions["win"].global_v) = 1
    /\ call.op = "align_by_frame" /\ call.m = "win"

\* the joints a two-bone IK call is allowed to rotate: the base joint and
\* the effector's parent, when the effector has one
IkTouched(parents, base_idx, effector_idx) ==
    ({base_idx} \cup {parents[effector_idx + 1]}) \ {-1}

C12_Contacts ==
    call.op = "get_contacts" =>
        LET mo    == motions[call.m]
            feet  == call.lfoot_idx \o call.rfoot_idx
            sq(v) == v[1] * v[1] + v[2] * v[2] + v[3] * v[3]
        IN /\ Len(call.res) = num_frames(mo)
           /\ \A p \in {GlobalP(mo.local_R, mo.root_p)} : \A t \in 1 .. num_frames(mo) :
                 /\ Len(call.res[t]) = Len(call.lfoot_idx) + Len(call.rfoot_idx)
                 /\ \A k \in 1 .. Len(feet) :
                       /\ call.res[t][k] \in {0, 1}
                       /\ call.res[t][k] = 1 <=>
                             sq(mo.global_v[t][feet[k] + 1]) < call.velfactor
                       /\ (t >= 2 /\ p[t][feet[k] + 1] = p[t - 1][feet[k] + 1])
                             => call.res[t][k] = 1
                       /\ (t >= 2 /\ sq(VSub(p[t][feet[k] + 1], p[t - 1][feet[k] + 1]))
                                        > call.velfactor)
                             => call.res[t][k] = 0

\* one query that meets a resting joint, a joint moving at exactly the
\* threshold and a faster joint
C12_Witness ==
    /\ call.op = "get_contacts" /\ call.m = "src"
    /\ Len(call.lfoot_idx) = 1 /\ Len(call.rfoot_idx) = 2
    /\ \E t \in 2 .. Len(call.res) :
          LET v == motions["src"].global_v[t]
          IN /\ call.res[t] = <<0, 0, 1>>
             /\ Dot(v[2], v[2]) = call.velfactor
             /\ Dot(v[3], v[3]) > call.velfactor
             /\ v[1] = ZeroV

\* C13: align_to_forward_by_frame(f, target) is a no-op when the normalized
\* horizontal projection of target is the horizontal forward direction that
\* frame f's pose has already: local_R, root_p, global_v and every pose's
\* local_R and root_p are unchanged.
C13_ForwardNoOp ==
    [][(nops' = nops + 1 /\ call'.op = "align_to_forward_by_frame") =>
          LET mo == motions[call'.m]
              to == normalize(VMul(call'.forward, XZ))
          IN (to # ZeroV /\ to = PoseForward(mo.poses[call'.frame + 1], MotionSkeleton)) =>
                /\ motions'[call'.m].local_R  = mo.local_R
                /\ motions'[call'.m].root_p   = mo.root_p
                /\ motions'[call'.m].global_v = mo.global_v
                /\ motions'[call'.m].poses    = mo.poses
                /\ motions'[call'.m].linked   = mo.linked]_vars

\* the first operation on a motion whose frame faces +x asked to face +x:
\* the poses were not bound to the bulk arrays again, so the call returned
\* before it rotated anything
C13_Witness ==
    /\ call.op = "align_to_forward_by_frame" /\ call.m = "src" /\ nops = 1
    /\ call.forward = <<2, 5, 0>>
    /\ PoseForward(motions["src"].poses[call.frame + 1], MotionSkeleton) = <<1, 0, 0>>
    /\ ~motions["src"].linked

\* the products of the basis 1, i, j, k: BasisProduct[a][b] = <<c, sign>> says
\* e_a e_b = sign e_c, where e_1 = 1, e_2 = i, e_3 = j, e_4 = k
BasisProduct ==
    << << <<1, 1>>, <<2, 1>>,  <<3, 1>>,  <<4, 1>>  >>,
       << <<2, 1>>, <<1, -1>>, <<4, 1>>,  <<3, -1>> >>,
       << <<3, 1>>, <<4, -1>>, <<1, -1>>, <<2, 1>>  >>,
       << <<4, 1>>, <<3, 1>>,  <<2, -1>>, <<1, -1>> >> >>

\* the terms x_a y_b e_a e_b that fall on e_c, summed over a and b <= n
RECURSIVE HamiltonSum(_, _, _, _)
HamiltonSum(x, y, c, n) ==
    IF n = 0 THEN 0
    ELSE LET a == ((n - 1) \div 4) + 1
             b == ((n - 1) % 4) + 1
             e == BasisProduct[a][b]
         IN HamiltonSum(x, y, c, n - 1) + (IF e[1] = c THEN e[2] * x[a] * y[b] ELSE 0)

\* the Hamilton product x y, expanded over the basis
Hamilton(x, y) == [c \in 1 .. 4 |-> HamiltonSum(x, y, c, 16)]

NormSq(q) == q[1] * q[1] + q[2] * q[2] + q[3] * q[3] + q[4] * q[4]

\* C14: Q.mul(x, y) is the Hamilton product x y with components in
\* (w, x, y, z) order, Q.inv is the conjugate, and for a unit quaternion q
\* Q.mul(q, Q.inv(q)) = Q.mul(Q.inv(q), q) = (1, 0, 0, 0).
C14_QuaternionAlgebra ==
    /\ q_out.op = "mul" => q_out.res = Hamilton(q_in[1], q_in[2])
    /\ q_out.op = "inv" =>
          q_out.res = <<q_in[1][1], -q_in[1][2], -q_in[1][3], -q_in[1][4]>>
    /\ (q_out.op = "mul_inv" /\ NormSq(q_in[1]) = 1) =>
          /\ q_out.res = <<1, 0, 0, 0>>
          /\ q_out.res_left = <<1, 0, 0, 0>>

\* j k = i was computed, where k j = -i
C14_Witness ==
    /\ q_out.op = "mul"
    /\ q_in = << <<0, 0, 1, 0>>, <<0, 0, 0, 1>> >>
    /\ q_out.res = <<0, 1, 0, 0>>

\* C15: after any sequence of alignment operations, translate_root and
\* two_bone_ik on a pose of a Motion built by from_numpy, the pose objects
\* and the bulk arrays agree: poses[i].local_R = local_R[i] and
\* poses[i].root_p = root_p[i] for every frame i.
C15_PosesAgree ==
    motions["src"].exists =>
        LET mo == motions["src"]
        IN \A i \in 1 .. num_frames(mo) :
              /\ mo.poses[i].local_R = mo.local_R[i]
              /\ mo.poses[i].root_p = mo.root_p[i]

\* C16: skeletons made by separate Skeleton() calls are independent: each
\* one's joint list and num_joints count only the joints added to it, like
\* its parent_idx table; each one can receive its own root; and the index
\* recorded for a new joint is its position in that skeleton's parent_idx.
C16_IndependentSkeletons ==
    /\ \A s \in SkelIds :
          (skel[s].created /\ raised[s] = 0) => num_joints(s) = Len(skel[s].parent_idx)
    /\ (call.op = "add_joint" /\ call.outcome = "AssertionError") =>
          Len(skel[call.s].parent_idx) > 0
    /\ (call.op = "add_joint" /\ call.outcome = "ok" /\ raised[call.s] = 0) =>
          /\ call.joint_idx = Len(skel[call.s].parent_idx) - 1
          /\ skel[call.s].idx_by_name[call.name] = call.joint_idx

=============================================================================
